---- MODULE Spec2Model ----
(***************************************************************************)
(* Model of the command-line conversation agent of main.go: startup        *)
(* (Config.Load, LoadToolFromJSONFile), the Converse loop, AppendResponse  *)
(* and Request.Post.                                                       *)
(*                                                                         *)
(* Strings are sequences of one-character strings, so that strings.ToLower *)
(* is computed character by character.                                     *)
(***************************************************************************)
EXTENDS Integers, Sequences, FiniteSets, TLC

(***************************************************************************)
(* Bounds of the model.                                                    *)
(***************************************************************************)
\* number of non-exit lines read in one session
MaxTurns == 2
\* number of content blocks in one response
MaxBlocks == 2

(***************************************************************************)
(* Program constants.                                                      *)
(***************************************************************************)
User == "user"
Assistant == "assistant"
Opus == "claude-3-opus-20240229"
text == "text"
toolUse == "tool_use"
SYS_PROMPT == "You are Super Claude"
MaxTokensBudget == 2048
StatusOK == 200
\* main calls NewConfig(true)
requireDotEnv == TRUE

(***************************************************************************)
(* Helpers on sequences.                                                   *)
(***************************************************************************)
IsPrefix(s, t) == Len(s) <= Len(t) /\ SubSeq(t, 1, Len(s)) = s

Last(s) == s[Len(s)]

SeqsUpTo(S, n) == UNION {[1..k -> S] : k \in 0..n}

RECURSIVE SelectRole(_, _)
SelectRole(conv, r) ==
    IF conv = <<>> THEN <<>>
    ELSE IF Head(conv).Role = r
         THEN <<Head(conv)>> \o SelectRole(Tail(conv), r)
         ELSE SelectRole(Tail(conv), r)

(***************************************************************************)
(* strings.ToLower, on the characters the modelled lines use.              *)
(***************************************************************************)
LowerChar(ch) ==
    CASE ch = "E" -> "e"
      [] ch = "X" -> "x"
      [] ch = "I" -> "i"
      [] ch = "T" -> "t"
      [] ch = "H" -> "h"
      [] OTHER -> ch

ToLower(s) == [i \in 1..Len(s) |-> LowerChar(s[i])]

ExitSentinel == <<"e", "x", "i", "t">>

\* a comparison that forgets the case folding
IsExit_CaseSensitive(line) == line = ExitSentinel

\* a comparison of the first four characters only
IsExit_Prefix(line) ==
    /\ Len(line) >= 4
    /\ ToLower(SubSeq(line, 1, 4)) = ExitSentinel

\* Converse: strings.ToLower(input) == "exit"
IsExit(line) == ToLower(line) = ExitSentinel

\* the lines stdin can deliver
Lines ==
    { <<"e", "x", "i", "t">>,
      <<"E", "X", "I", "T">>,
      <<"E", "x", "i", "t">>,
      <<>>,
      <<" ", "e", "x", "i", "t">>,
      <<"e", "x", "i", "t", "s">>,
      <<"H", "i">> }

(***************************************************************************)
(* Tools: the declaration LoadToolFromJSONFile reads from the schema file. *)
(***************************************************************************)
ToolFiles ==
    { [Name |-> "lookup_postal_code", Description |-> "postal codes"],
      [Name |-> "get_postal_code", Description |-> "postal codes"] }

NoTool == [Name |-> "", Description |-> ""]

\* the states tools/postal_codes.json can be in
SchemaFiles ==
    {[readable |-> FALSE, parses |-> FALSE, tool |-> NoTool],
     [readable |-> TRUE, parses |-> FALSE, tool |-> NoTool]}
    \cup {[readable |-> TRUE, parses |-> TRUE, tool |-> t] : t \in ToolFiles}

NoSchema == [readable |-> FALSE, parses |-> FALSE, tool |-> [Name |-> "unread", Description |-> ""]]

\* LoadToolFromJSONFile: the pair (tool, err) it returns
LoadToolFromJSONFile(f) ==
    IF ~f.readable
    THEN [err |-> "failed to read JSON file", tool |-> NoTool]
    ELSE IF ~f.parses
    THEN [err |-> "failed to unmarshal JSON", tool |-> NoTool]
    ELSE [err |-> "", tool |-> f.tool]

\* what godotenv.Load and os.Getenv can find
Envs == [dotenv : BOOLEAN, key : {"", "sk-key"}]

NoEnv == [dotenv |-> FALSE, key |-> "unread"]

\* tool names a response can refer to
ToolNames == {"lookup_postal_code", "no_such_tool"}

(***************************************************************************)
(* Response content blocks (ResponseMessage).                              *)
(***************************************************************************)
Texts == { <<"o", "k">>, <<"n", "o">> }

TextBlock(t) == [Type |-> text, Text |-> t, Id |-> "", Name |-> ""]

ToolUseBlock(id, name) == [Type |-> toolUse, Text |-> <<>>, Id |-> id, Name |-> name]

\* a content kind the program does not know
UnknownBlock == [Type |-> "thinking", Text |-> <<>>, Id |-> "", Name |-> ""]

Blocks ==
    {TextBlock(t) : t \in Texts}
    \cup {ToolUseBlock("t1", n) : n \in ToolNames}
    \cup {UnknownBlock}

Contents == SeqsUpTo(Blocks, MaxBlocks)

(***************************************************************************)
(* What the HTTP exchange can deliver to Request.Post.                     *)
(***************************************************************************)
StatusCodes == {200, 201, 404, 500}

\* readable: the body can be read (non-200 status) or decoded (status 200)
Wires ==
    {[kind |-> "neterr", status |-> 0, readable |-> FALSE, content |-> <<>>]}
    \cup {[kind |-> "http", status |-> s, readable |-> b, content |-> <<>>] :
              s \in StatusCodes \ {StatusOK}, b \in BOOLEAN}
    \cup {[kind |-> "http", status |-> StatusOK, readable |-> FALSE, content |-> <<>>]}
    \cup {[kind |-> "http", status |-> StatusOK, readable |-> TRUE, content |-> ct] :
              ct \in Contents}

NoWire == [kind |-> "none", status |-> 0, readable |-> FALSE, content |-> <<>>]

\* a Post that takes only the 5xx statuses for failures
Post_ServerErrorsOnly(w) ==
    IF w.kind = "neterr"
    THEN [ok |-> FALSE, err |-> "failed to send request", body |-> FALSE, Content |-> <<>>]
    ELSE IF w.status >= 500
    THEN IF ~w.readable
         THEN [ok |-> FALSE, err |-> "failed to read response body", body |-> FALSE, Content |-> <<>>]
         ELSE [ok |-> FALSE, err |-> "API request failed", body |-> TRUE, Content |-> <<>>]
    ELSE IF ~w.readable
    THEN [ok |-> FALSE, err |-> "failed to decode response", body |-> FALSE, Content |-> <<>>]
    ELSE [ok |-> TRUE, err |-> "", body |-> FALSE, Content |-> w.content]

\* Request.Post: the pair (resp, err) it returns for an exchange
Post(w) ==
    IF w.kind = "neterr"
    THEN [ok |-> FALSE, err |-> "failed to send request", body |-> FALSE, Content |-> <<>>]
    ELSE IF w.status # StatusOK
    THEN IF ~w.readable
         THEN [ok |-> FALSE, err |-> "failed to read response body", body |-> FALSE, Content |-> <<>>]
         ELSE [ok |-> FALSE, err |-> "API request failed", body |-> TRUE, Content |-> <<>>]
    ELSE IF ~w.readable
    THEN [ok |-> FALSE, err |-> "failed to decode response", body |-> FALSE, Content |-> <<>>]
    ELSE [ok |-> TRUE, err |-> "", body |-> FALSE, Content |-> w.content]

NoResult == [ok |-> FALSE, err |-> "none", body |-> FALSE, Content |-> <<>>]

(***************************************************************************)
(* State.                                                                  *)
(***************************************************************************)
VARIABLES
    pc,           \* position of the process
    apiKey,       \* cfg.AnthropicApiKey
    tools,        \* the tools slice built by main
    c,            \* the Conversation
    input,        \* the line of the current (or last) turn
    wire,         \* the HTTP exchange of the current (or last) request
    result,       \* what Post returned for it
    sent,         \* the requests posted so far, in order
    turnStart,    \* the Conversation when the current (or last) turn started
    printed,      \* what the last turn printed: "", "Claude" or "Error"
    reads,        \* number of non-exit lines read
    consumed,     \* the lines scanner.Scan() has delivered, in order
    env,          \* the environment Config.Load found
    schema,       \* the schema file LoadToolFromJSONFile found
    okText        \* number of responses Post returned whose first block is text

vars == <<pc, apiKey, tools, c, input, wire, result, sent, turnStart, printed, reads,
          consumed, env, schema, okText>>

Message(r, content) == [Role |-> r, Content |-> content]

Request(conv, tls) ==
    [Model |-> Opus, Messages |-> conv, MaxTokens |-> MaxTokensBudget,
     System |-> SYS_PROMPT, Tools |-> tls]

\* an AppendResponse that overwrites the last message
AppendResponse_Replace(conv, msg) ==
    IF msg.Type = text
    THEN Append(SubSeq(conv, 1, Len(conv) - 1), Message(Assistant, msg.Text))
    ELSE conv

\* an AppendResponse that does not look at the block's type
AppendResponse_NoTypeCheck(conv, msg) ==
    Append(conv, Message(Assistant, msg.Text))

\* Conversation.AppendResponse
AppendResponse(conv, msg) ==
    IF msg.Type = text
    THEN Append(conv, Message(Assistant, msg.Text))
    ELSE conv

Init ==
    /\ pc = "Start"
    /\ apiKey = ""
    /\ tools = <<>>
    /\ c = <<>>
    /\ input = <<>>
    /\ wire = NoWire
    /\ result = NoResult
    /\ sent = <<>>
    /\ turnStart = <<>>
    /\ printed = ""
    /\ reads = 0
    /\ consumed = <<>>
    /\ env = NoEnv
    /\ schema = NoSchema
    /\ okText = 0

\* a Load that goes on without the key
ConfigLoad_NoKeyCheck ==
    /\ pc = "Start"
    /\ \E e \in Envs :
          /\ env' = e
          /\ IF ~e.dotenv /\ requireDotEnv
             THEN /\ apiKey' = apiKey
                  /\ pc' = "Fatal"
             ELSE /\ apiKey' = e.key
                  /\ pc' = "LoadTool"
    /\ UNCHANGED <<tools, c, input, wire, result, sent, turnStart, printed, reads, consumed,
                   schema, okText>>

\* main: cfg.Load()
ConfigLoad ==
    /\ pc = "Start"
    /\ \E e \in Envs :
          /\ env' = e
          /\ IF (~e.dotenv /\ requireDotEnv) \/ e.key = ""
             THEN /\ apiKey' = apiKey
                  /\ pc' = "Fatal"
             ELSE /\ apiKey' = e.key
                  /\ pc' = "LoadTool"
    /\ UNCHANGED <<tools, c, input, wire, result, sent, turnStart, printed, reads, consumed,
                   schema, okText>>

\* main: LoadToolFromJSONFile and the construction of tools and conversation
LoadTool ==
    /\ pc = "LoadTool"
    /\ \E f \in SchemaFiles :
          /\ schema' = f
          /\ IF LoadToolFromJSONFile(f).err # ""
             THEN /\ tools' = tools
                  /\ pc' = "Fatal"
             ELSE /\ tools' = <<LoadToolFromJSONFile(f).tool>>
                  /\ pc' = "AwaitingUserInput"
    /\ c' = <<>>
    /\ UNCHANGED <<apiKey, input, wire, result, sent, turnStart, printed, reads, consumed,
                   env, okText>>

\* Converse: scanner.Scan() reports the end of stdin
ReadEOF ==
    /\ pc = "AwaitingUserInput"
    /\ pc' = "Exited"
    /\ UNCHANGED <<apiKey, tools, c, input, wire, result, sent, turnStart, printed, reads, consumed, env, schema, okText>>

\* a prompt that also reads while the request is in flight
ReadLine_WhilePending ==
    /\ pc \in {"AwaitingUserInput", "InFlight"}
    /\ \E line \in Lines :
          /\ input' = line
          /\ consumed' = Append(consumed, line)
          /\ IF IsExit(line)
             THEN /\ pc' = "Exited"
                  /\ UNCHANGED <<c, turnStart, reads, wire, result, printed>>
             ELSE /\ reads < MaxTurns
                  /\ c' = Append(c, Message(User, line))
                  /\ turnStart' = c
                  /\ reads' = reads + 1
                  /\ wire' = NoWire
                  /\ result' = NoResult
                  /\ printed' = ""
                  /\ pc' = "RequestPending"
    /\ UNCHANGED <<apiKey, tools, sent, env, schema, okText>>

\* Converse: a line is read; exit ends the loop, any other line is appended
ReadLine ==
    /\ pc = "AwaitingUserInput"
    /\ \E line \in Lines :
          /\ input' = line
          /\ consumed' = Append(consumed, line)
          /\ IF IsExit(line)
             THEN /\ pc' = "Exited"
                  /\ UNCHANGED <<c, turnStart, reads, wire, result, printed>>
             ELSE /\ reads < MaxTurns
                  /\ c' = Append(c, Message(User, line))
                  /\ turnStart' = c
                  /\ reads' = reads + 1
                  /\ wire' = NoWire
                  /\ result' = NoResult
                  /\ printed' = ""
                  /\ pc' = "RequestPending"
    /\ UNCHANGED <<apiKey, tools, sent, env, schema, okText>>

\* a request that carries only the newest message
SendRequest_OnlyLast ==
    /\ pc = "RequestPending"
    /\ sent' = Append(sent, Request(<<Last(c)>>, tools))
    /\ pc' = "InFlight"
    /\ UNCHANGED <<apiKey, tools, c, input, wire, result, turnStart, printed, reads, consumed,
                   env, schema, okText>>

\* a request that declares the tools only when the conversation starts
SendRequest_ToolsFirstOnly ==
    /\ pc = "RequestPending"
    /\ sent' = Append(sent, Request(c, IF sent = <<>> THEN tools ELSE <<>>))
    /\ pc' = "InFlight"
    /\ UNCHANGED <<apiKey, tools, c, input, wire, result, turnStart, printed, reads, consumed,
                   env, schema, okText>>

\* Converse: the request is built from the conversation and posted
SendRequest ==
    /\ pc = "RequestPending"
    /\ sent' = Append(sent, Request(c, tools))
    /\ pc' = "InFlight"
    /\ UNCHANGED <<apiKey, tools, c, input, wire, result, turnStart, printed, reads, consumed, env, schema, okText>>

\* Request.Post returns
PostReturns ==
    /\ pc = "InFlight"
    /\ \E w \in Wires :
          /\ wire' = w
          /\ result' = Post(w)
          /\ okText' = IF Post(w).ok /\ Len(Post(w).Content) > 0
                            /\ Post(w).Content[1].Type = text
                        THEN okText + 1
                        ELSE okText
    /\ pc' = "InterpretingResponse"
    /\ UNCHANGED <<apiKey, tools, c, input, sent, turnStart, printed, reads, consumed,
                   env, schema>>

\* an error branch that takes the user's message back
ReportError_Rollback ==
    /\ pc = "InterpretingResponse"
    /\ ~result.ok
    /\ printed' = "Error"
    /\ c' = turnStart
    /\ pc' = "AwaitingUserInput"
    /\ UNCHANGED <<apiKey, tools, input, wire, result, sent, turnStart, reads, consumed, env, schema, okText>>

\* an error branch that posts the request again
ReportError_Retry ==
    /\ pc = "InterpretingResponse"
    /\ ~result.ok
    /\ printed' = "Error"
    /\ pc' = "RequestPending"
    /\ UNCHANGED <<apiKey, tools, c, input, wire, result, sent, turnStart, reads, consumed,
                   env, schema, okText>>

\* Converse: the error branch
ReportError ==
    /\ pc = "InterpretingResponse"
    /\ ~result.ok
    /\ printed' = "Error"
    /\ pc' = "AwaitingUserInput"
    /\ UNCHANGED <<apiKey, tools, c, input, wire, result, sent, turnStart, reads, consumed, env, schema, okText>>

\* a success branch that appends the last block instead of the first
HandleResponse_LastBlock ==
    /\ pc = "InterpretingResponse"
    /\ result.ok
    /\ Len(result.Content) > 0
    /\ printed' = "Claude"
    /\ c' = AppendResponse(c, result.Content[Len(result.Content)])
    /\ pc' = "AwaitingUserInput"
    /\ UNCHANGED <<apiKey, tools, input, wire, result, sent, turnStart, reads, consumed, env, schema, okText>>

RECURSIVE AppendAll(_, _)
AppendAll(conv, content) ==
    IF content = <<>> THEN conv
    ELSE AppendAll(AppendResponse(conv, Head(content)), Tail(content))

\* a success branch that hands every block to AppendResponse
HandleResponse_AllBlocks ==
    /\ pc = "InterpretingResponse"
    /\ result.ok
    /\ Len(result.Content) > 0
    /\ printed' = "Claude"
    /\ c' = AppendAll(c, result.Content)
    /\ pc' = "AwaitingUserInput"
    /\ UNCHANGED <<apiKey, tools, input, wire, result, sent, turnStart, reads, consumed,
                   env, schema, okText>>

\* Converse: the success branch, resp.Content[0] exists
HandleResponse ==
    /\ pc = "InterpretingResponse"
    /\ result.ok
    /\ Len(result.Content) > 0
    /\ printed' = "Claude"
    /\ c' = AppendResponse(c, result.Content[1])
    /\ pc' = "AwaitingUserInput"
    /\ UNCHANGED <<apiKey, tools, input, wire, result, sent, turnStart, reads, consumed, env, schema, okText>>

\* Converse: the success branch, resp.Content[0] is out of range
IndexPanic ==
    /\ pc = "InterpretingResponse"
    /\ result.ok
    /\ Len(result.Content) = 0
    /\ printed' = "Claude"
    /\ pc' = "Panicked"
    /\ UNCHANGED <<apiKey, tools, c, input, wire, result, sent, turnStart, reads, consumed, env, schema, okText>>

Next ==
    \/ ConfigLoad
    \/ LoadTool
    \/ ReadEOF
    \/ ReadLine
    \/ SendRequest
    \/ PostReturns
    \/ ReportError
    \/ HandleResponse
    \/ IndexPanic

Spec == Init /\ [][Next]_vars

(***************************************************************************)
(* Vocabulary of the properties.                                           *)
(***************************************************************************)
\* a line that is "exit" up to the case of its letters
CaseInsensitiveExit(line) ==
    /\ Len(line) = 4
    /\ line[1] \in {"e", "E"}
    /\ line[2] \in {"x", "X"}
    /\ line[3] \in {"i", "I"}
    /\ line[4] \in {"t", "T"}

NotExitLine(line) == ~CaseInsensitiveExit(line)

\* the non-exit lines read so far, in order
NonExitLines == SelectSeq(consumed, NotExitLine)

\* the conversation right after the user's line of the current turn was added
TurnBase == Append(turnStart, Message(User, input))

\* a turn has run to its end and the prompt is shown again
TurnEnded == pc = "AwaitingUserInput" /\ reads > 0

AllText(content) == \A i \in 1..Len(content) : content[i].Type = text

\* C1: the conversation is append-only: every step leaves it unchanged or
\* adds messages at its end, so each earlier value is a prefix of each later
\* one and no message in it is edited, reordered or removed.
ConversationAppendOnly == [][IsPrefix(c, c')]_vars

\* a failed turn after a successful one: three messages, the middle one the
\* assistant's
ConversationAppendOnlyWitness ==
    /\ TurnEnded
    /\ printed = "Error"
    /\ Len(c) = 3
    /\ c[2].Role = Assistant

\* C3: a turn whose Post returned an error ends with the conversation it
\* started with plus exactly the user's message of the turn.
TransportErrorKeepsUserMessage ==
    (pc \in {"InterpretingResponse", "AwaitingUserInput"} /\ reads > 0
        /\ wire # NoWire /\ ~result.ok)
    => c = TurnBase

\* a turn ended by a non-success status, after an earlier turn
TransportErrorWitness ==
    /\ TurnEnded
    /\ printed = "Error"
    /\ wire.kind = "http" /\ wire.status = 500
    /\ Len(turnStart) > 0

\* C5: a line that is "exit" in any case ends the session: no request is
\* sent for it, the conversation is left as it was, and nothing happens
\* after the session has ended.
ExitEndsSession ==
    [][ /\ (consumed' # consumed /\ CaseInsensitiveExit(Last(consumed')))
            => (pc' = "Exited" /\ c' = c /\ sent' = sent)
        /\ pc # "Exited" ]_vars

\* the session was ended by "Exit" after a turn
ExitEndsSessionWitness ==
    /\ pc = "Exited"
    /\ consumed # <<>>
    /\ Last(consumed) = <<"E", "x", "i", "t">>
    /\ Len(c) > 0

\* C6: a successful response of one or more blocks, all text, adds exactly
\* one assistant message, the first block's text, right after the turn's
\* user message, and the turn completes.
TextOnlyAppendsFirstText ==
    (wire # NoWire /\ result.ok /\ Len(result.Content) >= 1 /\ AllText(result.Content))
    => /\ pc \in {"InterpretingResponse", "AwaitingUserInput", "Exited"}
       /\ pc = "AwaitingUserInput"
            => /\ c = Append(TurnBase, Message(Assistant, result.Content[1].Text))
               /\ printed = "Claude"

\* a completed turn whose response had two different text blocks
TextOnlyWitness ==
    /\ TurnEnded
    /\ result.ok
    /\ Len(result.Content) = 2
    /\ AllText(result.Content)
    /\ result.Content[1].Text # result.Content[2].Text

ToolResultRole == "tool-result"

RegisteredNames == {tools[i].Name : i \in 1..Len(tools)}

\* the messages added to the conversation in the current turn
TurnMessages == SubSeq(c, Len(turnStart) + 1, Len(c))

HasToolResult(conv) == \E i \in 1..Len(conv) : conv[i].Role = ToolResultRole

\* the response of the turn holds a tool_use block for a tool of the registry
RegisteredToolUse ==
    /\ result.ok
    /\ \E i \in 1..Len(result.Content) :
          /\ result.Content[i].Type = toolUse
          /\ result.Content[i].Name \in RegisteredNames

\* the response of the turn holds a tool_use block for a tool not in it
UnknownToolUse ==
    /\ result.ok
    /\ \E i \in 1..Len(result.Content) :
          /\ result.Content[i].Type = toolUse
          /\ result.Content[i].Name \notin RegisteredNames

\* C2: a turn whose response asked for a registered tool does not return to
\* the prompt before a tool-result message was appended and a further
\* request carrying that message was sent.
ToolUseDispatchedInTurn ==
    (TurnEnded /\ RegisteredToolUse)
    => /\ HasToolResult(TurnMessages)
       /\ \E i \in 1..Len(sent) : HasToolResult(sent[i].Messages)

\* C4: every turn ends in TurnComplete or in a transport-error report,
\* whatever the response holds (an empty content list included); the
\* process never ends a turn by crashing.
TurnAlwaysTerminates ==
    /\ pc # "Panicked"
    /\ TurnEnded => printed \in {"Claude", "Error"}

\* C7: the first message is the user's and no two consecutive messages have
\* the same role.
RoleAlternation ==
    /\ c # <<>> => c[1].Role = User
    /\ \A i \in 1..(Len(c) - 1) : c[i].Role # c[i + 1].Role

\* C8: a tool_use block naming a tool that is not registered yields a
\* failure tool-result message in the conversation, the turn goes on and
\* the process does not die of it.
UnknownToolIsRecoverable ==
    UnknownToolUse
    => /\ pc # "Panicked"
       /\ TurnEnded => HasToolResult(TurnMessages)

StripUnknown(content) ==
    SelectSeq(content, LAMBDA b : b.Type \in {text, toolUse})

\* what the success branch of Converse makes of a content list
SuccessOutcome(conv, content) ==
    IF Len(content) = 0
    THEN [c |-> conv, pc |-> "Panicked"]
    ELSE [c |-> AppendResponse(conv, content[1]), pc |-> "AwaitingUserInput"]

\* C9: blocks of an unknown kind change nothing: the turn ends as it would
\* for the same response without them.
UnknownBlocksAreNoOp ==
    (pc \in {"AwaitingUserInput", "Panicked"} /\ result.ok)
    => [c |-> c, pc |-> pc] = SuccessOutcome(TurnBase, StripUnknown(result.Content))

\* C11: a failed transport call is reported and the prompt returns without
\* another request; every request sent is the only one for the line of its
\* turn, so nothing is re-sent before another non-exit line is read.
NoAutomaticRetry ==
    [][ /\ (pc = "InterpretingResponse" /\ ~result.ok)
            => (pc' = "AwaitingUserInput" /\ printed' = "Error" /\ sent' = sent)
        /\ sent' # sent
            => (Len(sent') = Len(sent) + 1 /\ Len(sent') = Len(NonExitLines')) ]_vars

\* the second turn of a session failed on the network and the prompt is back
NoAutomaticRetryWitness ==
    /\ TurnEnded
    /\ printed = "Error"
    /\ wire.kind = "neterr"
    /\ reads = 2
    /\ Len(sent) = 2

\* the conversation loop has been entered
LoopEntered ==
    \/ pc \in {"AwaitingUserInput", "RequestPending", "InFlight", "InterpretingResponse",
                "Exited", "Panicked"}
    \/ consumed # <<>>
    \/ sent # <<>>

\* C12: the loop is entered, a line read or a request sent only after the
\* key was found and the schema file was read and parsed; a missing key, an
\* unreadable file or an unparsable file ends the process before the loop.
StartupGatesLoop ==
    /\ LoopEntered
         => /\ env # NoEnv /\ env.key # "" /\ apiKey = env.key
            /\ schema # NoSchema /\ schema.readable /\ schema.parses
            /\ tools = <<schema.tool>>
    /\ (env # NoEnv /\ env.key = "") => pc = "Fatal"
    /\ (schema # NoSchema /\ ~(schema.readable /\ schema.parses)) => pc = "Fatal"
    /\ pc = "Fatal" => ~LoopEntered

\* the key was found but the schema file does not parse
StartupGatesLoopWitness ==
    /\ pc = "Fatal"
    /\ apiKey # ""
    /\ schema.readable
    /\ ~schema.parses

Is2xx(status) == status \in 200..299

\* C13: a status outside 2xx makes Post return an error and no Response,
\* the error carrying the body when it could be read, so the turn adds no
\* assistant message; a Response comes only with a success status and a
\* body that decodes.
NonSuccessStatusIsError ==
    /\ (wire.kind = "http" /\ ~Is2xx(wire.status))
         => /\ ~result.ok
            /\ result.Content = <<>>
            /\ result.body = wire.readable
            /\ TurnEnded => c = TurnBase
    /\ result.ok => (wire.kind = "http" /\ Is2xx(wire.status) /\ wire.readable)

\* a turn ended by a 404 whose body was read into the error
NonSuccessStatusWitness ==
    /\ TurnEnded
    /\ wire.kind = "http"
    /\ wire.status = 404
    /\ wire.readable
    /\ result.body

\* C14: every request carries the whole conversation as it was when the
\* request was sent, in order: a non-empty list that ends with the user
\* message of its turn.
RequestEmbedsConversation ==
    /\ \A i \in 1..Len(sent) :
          /\ sent[i].Messages # <<>>
          /\ IsPrefix(sent[i].Messages, c)
          /\ Last(sent[i].Messages).Role = User
          /\ Len(SelectRole(sent[i].Messages, User)) = i
    /\ pc \in {"InFlight", "InterpretingResponse"}
         => (Last(sent).Messages = c /\ Last(c) = Message(User, input))

\* a request in flight that carries an earlier exchange and the new line
RequestEmbedsConversationWitness ==
    /\ pc = "InFlight"
    /\ Len(sent) = 2
    /\ Len(Last(sent).Messages) = 3
    /\ Last(sent).Messages[2].Role = Assistant

\* C15: after a successful request the turn has added the first block's
\* text as one assistant message if that block is a text block and nothing
\* otherwise; later blocks change nothing, and a tool_use block brings no
\* tool-result message and no further request.
FirstBlockRule ==
    (result.ok /\ pc \in {"AwaitingUserInput", "Panicked"})
    => /\ c = IF Len(result.Content) > 0 /\ result.Content[1].Type = text
              THEN Append(TurnBase, Message(Assistant, result.Content[1].Text))
              ELSE TurnBase
       /\ ~HasToolResult(c)
       /\ Len(sent) = reads

\* a completed turn whose response was a tool_use block followed by text
FirstBlockRuleWitness ==
    /\ TurnEnded
    /\ result.ok
    /\ Len(result.Content) = 2
    /\ result.Content[1].Type = toolUse
    /\ result.Content[2].Type = text
    /\ c = TurnBase

\* C16: every request of the session carries the tools loaded at startup
\* and the same model, system prompt and token budget.
FrozenRegistryAndParameters ==
    /\ LoopEntered => tools = <<schema.tool>>
    /\ \A i \in 1..Len(sent) :
          /\ sent[i].Tools = <<schema.tool>>
          /\ sent[i].Model = Opus
          /\ sent[i].System = SYS_PROMPT
          /\ sent[i].MaxTokens = MaxTokensBudget

\* the second request of a session, sent after a turn that failed
FrozenRegistryWitness ==
    /\ pc = "InFlight"
    /\ Len(sent) = 2
    /\ Len(c) = 2
    /\ schema.tool.Name = "get_postal_code"

\* C17: a line is read only when no request of the current turn is pending
\* or being processed, a request is sent only when every earlier one has
\* returned, and whatever is appended is appended behind the user message
\* of the newest turn.
TurnsSequential ==
    [][ /\ consumed' # consumed => (pc = "AwaitingUserInput" /\ Len(sent) = reads)
        /\ sent' # sent => (pc = "RequestPending" /\ Len(sent) = reads - 1)
        /\ c' # c
            => /\ turnStart' = (IF consumed' # consumed THEN c ELSE turnStart)
               /\ IsPrefix(Append(turnStart', Message(User, input')), c')
               /\ Len(c') = Len(c) + 1 ]_vars

\* the request of the second turn is in flight after a first turn that
\* added an assistant message
TurnsSequentialWitness ==
    /\ pc = "InFlight"
    /\ reads = 2
    /\ Len(c) = 3
    /\ Len(turnStart) = 2

\* C18: between turns there are as many user messages and as many requests
\* as non-exit lines read, as many assistant messages as responses whose
\* first block was text, never more assistant than user messages, and the
\* last turn added one or two messages.
CountingInvariant ==
    pc = "AwaitingUserInput"
    => /\ Len(SelectRole(c, User)) = Len(NonExitLines)
       /\ Len(sent) = Len(NonExitLines)
       /\ Len(SelectRole(c, Assistant)) = okText
       /\ Len(SelectRole(c, Assistant)) <= Len(SelectRole(c, User))
       /\ Len(c) = Len(SelectRole(c, User)) + Len(SelectRole(c, Assistant))
       /\ reads > 0 => Len(c) - Len(turnStart) \in {1, 2}

\* two turns are over: one added an assistant message, the last one got a
\* response whose first block is not text
CountingInvariantWitness ==
    /\ TurnEnded
    /\ reads = 2
    /\ okText = 1
    /\ Len(c) = 3
    /\ result.ok
    /\ result.Content[1].Type # text

====
